---------------------------- MODULE Spec2Model ----------------------------
(***************************************************************************)
(* Model of split-sqlfile (src/main.go): the read loop of Splitter.Split,  *)
(* the statement splitting with its carry (leftover), the validity filter  *)
(* hasValid, the classifier extractTable and the sink (writeStatement,     *)
(* flushBuffers, closeFiles).                                              *)
(*                                                                         *)
(* Text is a sequence of lexemes.  A lexeme stands for a fixed run of      *)
(* bytes of the source file: one byte for ";", " ", "\n" and the backtick  *)
(* (written "bq"), two bytes for the comment markers "--" and "/*", a run  *)
(* of letters for a word ("a", "UPDATE", ...).  The reader cuts the source *)
(* between lexemes.                                                        *)
(*                                                                         *)
(* Spec starts on entry to the read loop (main.go:168), with the input     *)
(* file open and the output directory present.  bufSize (main.go:15) and   *)
(* the flush threshold 1000 (main.go:96) are scaled down to MaxChunk and   *)
(* FlushThreshold.  An I/O call can fail: fault names the one that does.   *)
(***************************************************************************)
EXTENDS Integers, Sequences, FiniteSets, TLC

VARIABLES
    src,            \* content of the input file
    pos,            \* read cursor of the input file (lexemes consumed)
    leftover,       \* Split: leftover (main.go:140)
    pc,             \* position of Split: "read", "done", "failed"
    err,            \* the error Split returns ("nil" while running)
    tables,         \* Splitter.tables: table name -> handle state
    buffers,        \* Splitter.buffers: table name -> pending statements
    files,          \* the output directory: table name -> strings written
    creates,        \* os.Create calls that succeeded, per table name
    writes,         \* WriteString calls that succeeded
    closes,         \* Close calls on the output files, per table name
    env,            \* which of os.Open, os.Stat, os.MkdirAll succeed
    statementCount, \* Split: statementCount (main.go:141)
    emitted,        \* history: statements accepted by writeStatement
    examined,       \* history: trimmed pieces handed to hasValid
    clsIn,          \* classifier check: the statement text
    clsOut          \* classifier check: result of extractTable

vars == <<src, pos, leftover, pc, err, tables, buffers, files, creates, writes,
          closes, env, statementCount, emitted, examined, clsIn, clsOut>>

-----------------------------------------------------------------------------
(* Bounds *)

MaxFrags == 3

MaxChunk == 2

FlushThreshold == 1

MaxPhrases == 3

-----------------------------------------------------------------------------
(* Lexemes and strings *)

WS == {" ", "\n"}

\* the lexeme of the backtick byte
Backtick == "bq"

Min(S) == CHOOSE x \in S : \A y \in S : x <= y

Max(S) == CHOOSE x \in S : \A y \in S : x >= y

\* strings.TrimSpace
TrimSpace(s) ==
    LET keep == {i \in 1..Len(s) : s[i] \notin WS}
    IN  IF keep = {} THEN <<>> ELSE SubSeq(s, Min(keep), Max(keep))

\* strings.Split(s, sep) for a one-byte separator: always at least one piece
RECURSIVE StringsSplit(_, _)
StringsSplit(s, sep) ==
    LET at == {i \in 1..Len(s) : s[i] = sep}
    IN  IF at = {} THEN <<s>>
        ELSE <<SubSeq(s, 1, Min(at) - 1)>>
                 \o StringsSplit(SubSeq(s, Min(at) + 1, Len(s)), sep)

\* strings.HasPrefix(s, marker) for a marker that is one lexeme
HasPrefix(s, marker) == Len(s) >= 1 /\ s[1] = marker

CasePairs ==
    { <<"a", "A">>, <<"b", "B">>, <<"c", "C">>, <<"t", "T">>,
      <<"create", "CREATE">>, <<"table", "TABLE">>, <<"insert", "INSERT">>,
      <<"into", "INTO">>, <<"update", "UPDATE">>, <<"delete", "DELETE">>,
      <<"from", "FROM">>, <<"alter", "ALTER">>, <<"drop", "DROP">>,
      <<"if", "IF">>, <<"not", "NOT">>, <<"exists", "EXISTS">>,
      <<"misc", "MISC">> }

ToUpperLexeme(x) ==
    IF \E p \in CasePairs : p[1] = x
    THEN (CHOOSE p \in CasePairs : p[1] = x)[2] ELSE x

ToLowerLexeme(x) ==
    IF \E p \in CasePairs : p[2] = x
    THEN (CHOOSE p \in CasePairs : p[2] = x)[1] ELSE x

\* strings.ToUpper
ToUpper(s) == [i \in 1..Len(s) |-> ToUpperLexeme(s[i])]

\* strings.ToLower
ToLower(s) == [i \in 1..Len(s) |-> ToLowerLexeme(s[i])]

\* strings.Trim(s, backtick)
TrimBacktick(s) ==
    LET keep == {i \in 1..Len(s) : s[i] # Backtick}
    IN  IF keep = {} THEN <<>> ELSE SubSeq(s, Min(keep), Max(keep))

-----------------------------------------------------------------------------
(* hasValid, main.go:34-46 *)

\* hasValidLines without the test for the "--" marker
RECURSIVE hasValidLines_noDashTest(_)
hasValidLines_noDashTest(lines) ==
    IF lines = <<>> THEN FALSE
    ELSE LET trimmed == TrimSpace(Head(lines))
         IN  IF trimmed # <<>> /\ ~HasPrefix(trimmed, "/*")
             THEN TRUE
             ELSE hasValidLines_noDashTest(Tail(lines))

RECURSIVE hasValidLines(_)
hasValidLines(lines) ==
    IF lines = <<>> THEN FALSE
    ELSE LET trimmed == TrimSpace(Head(lines))
         IN  IF /\ trimmed # <<>>
                /\ ~HasPrefix(trimmed, "--")
                /\ ~HasPrefix(trimmed, "/*")
             THEN TRUE
             ELSE hasValidLines(Tail(lines))

hasValid(statement) ==
    IF statement # <<>> THEN hasValidLines(StringsSplit(statement, "\n"))
    ELSE FALSE

-----------------------------------------------------------------------------
(* extractTable, main.go:48-69 *)

\* The six regular expressions, in the order of the slice: the words of the
\* verb (each followed by \s+), and the words of the optional group.
patterns ==
    << [verb |-> <<"CREATE", "TABLE">>, opt |-> <<"IF", "NOT", "EXISTS">>],
       [verb |-> <<"INSERT", "INTO">>,  opt |-> <<>>],
       [verb |-> <<"UPDATE">>,          opt |-> <<>>],
       [verb |-> <<"DELETE", "FROM">>,  opt |-> <<>>],
       [verb |-> <<"ALTER", "TABLE">>,  opt |-> <<>>],
       [verb |-> <<"DROP", "TABLE">>,   opt |-> <<"IF", "EXISTS">>] >>

\* first position >= p that holds no whitespace
SkipSpace(u, p) ==
    LET stop == {i \in p..Len(u) : u[i] \notin WS}
    IN  IF stop = {} THEN Len(u) + 1 ELSE Min(stop)

\* the words, each followed by \s+, from position p: the position after
\* them, or 0 when they do not match there
RECURSIVE MatchWords(_, _, _)
MatchWords(u, p, words) ==
    IF words = <<>> THEN p
    ELSE IF p <= Len(u) /\ u[p] = Head(words)
         THEN LET q == SkipSpace(u, p + 1)
              IN  IF q = p + 1 THEN 0 ELSE MatchWords(u, q, Tail(words))
         ELSE 0

\* [^bq\s]+ from position p: the longest run
Identifier(u, p) ==
    LET stop == {i \in p..Len(u) : u[i] \in WS \cup {Backtick}}
        last == IF stop = {} THEN Len(u) ELSE Min(stop) - 1
    IN  SubSeq(u, p, last)

\* (?:bq)?([^bq\s]+)(?:bq)? from position p: the capture, <<>> when no match
Capture(u, p) ==
    IF p <= Len(u) /\ u[p] = Backtick THEN Identifier(u, p + 1)
    ELSE Identifier(u, p)

\* the pattern from position p: capture group 1, <<>> when no match there
MatchAt(u, p, pat) ==
    LET q == MatchWords(u, p, pat.verb)
    IN  IF q = 0 THEN <<>>
        ELSE LET q2 == IF pat.opt = <<>> THEN 0 ELSE MatchWords(u, q, pat.opt)
                 withOpt == IF q2 = 0 THEN <<>> ELSE Capture(u, q2)
             IN  IF withOpt # <<>> THEN withOpt ELSE Capture(u, q)

\* regexp.FindStringSubmatch: group 1 of the leftmost match, <<>> when none
FindStringSubmatch(u, pat) ==
    LET hits == {p \in 1..Len(u) : MatchAt(u, p, pat) # <<>>}
    IN  IF hits = {} THEN <<>> ELSE MatchAt(u, Min(hits), pat)

\* extractFrom taking the pattern whose match starts first in the text
\* instead of the first pattern of the slice that matches
extractFrom_leftmostInText(upper, k) ==
    LET start(i) ==
            Min({p \in 1..Len(upper) : MatchAt(upper, p, patterns[i]) # <<>>})
        found == {i \in k..Len(patterns) :
                      FindStringSubmatch(upper, patterns[i]) # <<>>}
    IN  IF found = {} THEN <<>>
        ELSE LET best == CHOOSE i \in found :
                             \A j \in found :
                                 start(i) < start(j) \/ (start(i) = start(j) /\ i <= j)
             IN  TrimBacktick(ToLower(FindStringSubmatch(upper, patterns[best])))

RECURSIVE extractFrom(_, _)
extractFrom(upper, k) ==
    IF k > Len(patterns) THEN <<>>
    ELSE LET m == FindStringSubmatch(upper, patterns[k])
         IN  IF m # <<>> THEN TrimBacktick(ToLower(m))
             ELSE extractFrom(upper, k + 1)

extractTable(statement) == extractFrom(ToUpper(TrimSpace(statement)), 1)

-----------------------------------------------------------------------------
(* The sink: writeStatement, flushBuffers, closeFiles.  A sink state is a  *)
(* record of the Splitter's maps, the output directory and the histories;  *)
(* fault names the I/O call of the current step that fails, if any.        *)

misc == <<"misc">>

\* the map m with key k set to v
Put(m, k, v) == [x \in DOMAIN m \cup {k} |-> IF x = k THEN v ELSE m[x]]

RECURSIVE SumLen(_, _)
SumLen(m, keys) ==
    IF keys = {} THEN 0
    ELSE LET k == CHOOSE x \in keys : TRUE
         IN  Len(m[k]) + SumLen(m, keys \ {k})

\* WithNewlines ranging over the buffer from its end
WithNewlines_backwards(buffer) ==
    [i \in 1..Len(buffer) |-> buffer[Len(buffer) + 1 - i] \o <<"\n">>]

\* the strings of one buffer as flushBuffers writes them: buf + "\n" each
WithNewlines(buffer) == [i \in 1..Len(buffer) |-> buffer[i] \o <<"\n">>]

\* flushBuffers without the clearing of the buffers (main.go:122)
flushBuffers_keepsBuffers(st) ==
    LET pending == {t \in DOMAIN st.buffers : Len(st.buffers[t]) # 0}
        broken  == {t \in pending :
                        t \notin DOMAIN st.tables \/ st.tables[t] # "open"}
    IN  IF pending # {} /\ (st.fault = "write" \/ broken # {})
        THEN [st EXCEPT !.err = "write", !.fault = "none"]
        ELSE [st EXCEPT
                !.files = [t \in DOMAIN st.files |->
                              IF t \in pending
                              THEN st.files[t] \o WithNewlines(st.buffers[t])
                              ELSE st.files[t]],
                !.writes = @ + SumLen(st.buffers, pending)]

\* flushBuffers, main.go:108-126
flushBuffers(st) ==
    LET pending == {t \in DOMAIN st.buffers : Len(st.buffers[t]) # 0}
        broken  == {t \in pending :
                        t \notin DOMAIN st.tables \/ st.tables[t] # "open"}
    IN  IF pending # {} /\ (st.fault = "write" \/ broken # {})
        THEN [st EXCEPT !.err = "write", !.fault = "none"]
        ELSE [st EXCEPT
                !.files = [t \in DOMAIN st.files |->
                              IF t \in pending
                              THEN st.files[t] \o WithNewlines(st.buffers[t])
                              ELSE st.files[t]],
                !.writes = @ + SumLen(st.buffers, pending),
                !.buffers = [t \in DOMAIN st.buffers |-> <<>>]]

\* writeStatement without the test for an existing handle (main.go:78-79)
writeStatement_alwaysCreates(st, extracted, statement, delim) ==
    LET table  == IF extracted = <<>> THEN misc ELSE extracted
    IN  IF st.fault = "create"
        THEN [st EXCEPT !.err = "create", !.fault = "none"]
        ELSE LET opened ==
                     [st EXCEPT
                        !.tables = Put(@, table, "open"),
                        !.files = Put(@, table, <<>>),
                        !.creates = Put(@, table,
                            IF table \in DOMAIN @ THEN @[table] + 1 ELSE 1)]
                 old == IF table \in DOMAIN opened.buffers
                        THEN opened.buffers[table] ELSE <<>>
                 added == [opened EXCEPT
                             !.buffers = Put(@, table, Append(old, statement)),
                             !.emitted = Append(@, [table |-> table,
                                                    text  |-> statement,
                                                    delim |-> delim])]
                 total == SumLen(added.buffers, DOMAIN added.buffers)
             IN  IF total > FlushThreshold THEN flushBuffers(added) ELSE added

\* writeStatement putting every statement under misc, whatever its table
writeStatement_ignoresTable(st, extracted, statement, delim) ==
    LET table  == misc
        exists == table \in DOMAIN st.tables
    IN  IF ~exists /\ st.fault = "create"
        THEN [st EXCEPT !.err = "create", !.fault = "none"]
        ELSE LET opened ==
                     IF exists THEN st
                     ELSE [st EXCEPT
                             !.tables = Put(@, table, "open"),
                             !.files = Put(@, table, <<>>),
                             !.creates = Put(@, table,
                                 IF table \in DOMAIN @ THEN @[table] + 1 ELSE 1)]
                 old == IF table \in DOMAIN opened.buffers
                        THEN opened.buffers[table] ELSE <<>>
                 added == [opened EXCEPT
                             !.buffers = Put(@, table, Append(old, statement)),
                             !.emitted = Append(@, [table |-> table,
                                                    text  |-> statement,
                                                    delim |-> delim])]
                 total == SumLen(added.buffers, DOMAIN added.buffers)
             IN  IF total > FlushThreshold THEN flushBuffers(added) ELSE added

\* writeStatement comparing only the buffer of its own table to the threshold
writeStatement_perTableThreshold(st, extracted, statement, delim) ==
    LET table  == IF extracted = <<>> THEN misc ELSE extracted
        exists == table \in DOMAIN st.tables
    IN  IF ~exists /\ st.fault = "create"
        THEN [st EXCEPT !.err = "create", !.fault = "none"]
        ELSE LET opened ==
                     IF exists THEN st
                     ELSE [st EXCEPT
                             !.tables = Put(@, table, "open"),
                             !.files = Put(@, table, <<>>),
                             !.creates = Put(@, table,
                                 IF table \in DOMAIN @ THEN @[table] + 1 ELSE 1)]
                 old == IF table \in DOMAIN opened.buffers
                        THEN opened.buffers[table] ELSE <<>>
                 added == [opened EXCEPT
                             !.buffers = Put(@, table, Append(old, statement)),
                             !.emitted = Append(@, [table |-> table,
                                                    text  |-> statement,
                                                    delim |-> delim])]
                 total == Len(added.buffers[table])
             IN  IF total > FlushThreshold THEN flushBuffers(added) ELSE added

\* writeStatement appending the statement although os.Create failed
writeStatement_appendsAfterFailedCreate(st, extracted, statement, delim) ==
    LET table  == IF extracted = <<>> THEN misc ELSE extracted
        exists == table \in DOMAIN st.tables
    IN  IF ~exists /\ st.fault = "create"
        THEN [st EXCEPT !.err = "create", !.fault = "none",
                        !.buffers = Put(@, table, <<statement>>)]
        ELSE LET opened ==
                     IF exists THEN st
                     ELSE [st EXCEPT
                             !.tables = Put(@, table, "open"),
                             !.files = Put(@, table, <<>>),
                             !.creates = Put(@, table,
                                 IF table \in DOMAIN @ THEN @[table] + 1 ELSE 1)]
                 old == IF table \in DOMAIN opened.buffers
                        THEN opened.buffers[table] ELSE <<>>
                 added == [opened EXCEPT
                             !.buffers = Put(@, table, Append(old, statement)),
                             !.emitted = Append(@, [table |-> table,
                                                    text  |-> statement,
                                                    delim |-> delim])]
                 total == SumLen(added.buffers, DOMAIN added.buffers)
             IN  IF total > FlushThreshold THEN flushBuffers(added) ELSE added

\* writeStatement, main.go:72-100
writeStatement(st, extracted, statement, delim) ==
    LET table  == IF extracted = <<>> THEN misc ELSE extracted
        exists == table \in DOMAIN st.tables
    IN  IF ~exists /\ st.fault = "create"
        THEN [st EXCEPT !.err = "create", !.fault = "none"]
        ELSE LET opened ==
                     IF exists THEN st
                     ELSE [st EXCEPT
                             !.tables = Put(@, table, "open"),
                             !.files = Put(@, table, <<>>),
                             !.creates = Put(@, table,
                                 IF table \in DOMAIN @ THEN @[table] + 1 ELSE 1)]
                 old == IF table \in DOMAIN opened.buffers
                        THEN opened.buffers[table] ELSE <<>>
                 added == [opened EXCEPT
                             !.buffers = Put(@, table, Append(old, statement)),
                             !.emitted = Append(@, [table |-> table,
                                                    text  |-> statement,
                                                    delim |-> delim])]
                 total == SumLen(added.buffers, DOMAIN added.buffers)
             IN  IF total > FlushThreshold THEN flushBuffers(added) ELSE added

\* closeFiles, main.go:102-106
closeFiles(tbl) == [t \in DOMAIN tbl |-> "closed"]

\* the Close calls of closeFiles, added to the calls counted so far
closeCalls(tbl, counted) ==
    [t \in DOMAIN tbl \cup DOMAIN counted |->
        (IF t \in DOMAIN counted THEN counted[t] ELSE 0)
            + (IF t \in DOMAIN tbl THEN 1 ELSE 0)]

-----------------------------------------------------------------------------
(* Split, main.go:129-244: the read loop from line 168 on, the final flush *)
(* and the deferred close.                                                 *)

EmptyMap == [t \in {} |-> <<>>]

\* the ascending sequence of a set of numbers
RECURSIVE Ascending(_)
Ascending(S) == IF S = {} THEN <<>> ELSE <<Min(S)>> \o Ascending(S \ {Min(S)})

\* the Splitter and the histories as a sink state
Sink(fault) ==
    [tables |-> tables, buffers |-> buffers, files |-> files,
     creates |-> creates, writes |-> writes, emitted |-> emitted,
     examined |-> examined, count |-> statementCount,
     err |-> "nil", fault |-> fault]

\* ProcessStatements going on to the next piece when writeStatement fails
RECURSIVE ProcessStatements_continuesAfterError(_, _, _, _)
ProcessStatements_continuesAfterError(st, statements, i, delims) ==
    IF i > Len(statements) - 1 THEN st
    ELSE LET statement == TrimSpace(statements[i])
             seen == [st EXCEPT !.examined = Append(@, statement)]
         IN  IF hasValid(statement)
             THEN LET w == writeStatement(seen, extractTable(statement),
                                          statement \o <<";">>, delims[i])
                  IN  ProcessStatements_continuesAfterError(
                          IF w.err # "nil" THEN w
                          ELSE [w EXCEPT !.count = @ + 1],
                          statements, i + 1, delims)
             ELSE ProcessStatements_continuesAfterError(seen, statements,
                                                        i + 1, delims)

\* main.go:199-209: the pieces before the last one, in order; delims[i] is
\* the source position of the ';' that ends piece i
RECURSIVE ProcessStatements(_, _, _, _)
ProcessStatements(st, statements, i, delims) ==
    IF i > Len(statements) - 1 THEN st
    ELSE LET statement == TrimSpace(statements[i])
             seen == [st EXCEPT !.examined = Append(@, statement)]
         IN  IF hasValid(statement)
             THEN LET w == writeStatement(seen, extractTable(statement),
                                          statement \o <<";">>, delims[i])
                  IN  IF w.err # "nil" THEN w
                      ELSE ProcessStatements([w EXCEPT !.count = @ + 1],
                                             statements, i + 1, delims)
             ELSE ProcessStatements(seen, statements, i + 1, delims)

\* main.go:211-225: the last piece, readErr being the error of this Read
LastPart(st, statements, readErr) ==
    LET lastPart == TrimSpace(statements[Len(statements)])
    IN  IF readErr = "EOF"
        THEN LET seen == [st EXCEPT !.examined = Append(@, lastPart)]
             IN  IF hasValid(lastPart)
                 THEN LET w == writeStatement(seen, extractTable(lastPart),
                                              lastPart, 0)
                      IN  IF w.err # "nil" THEN [st |-> w, leftover |-> <<>>]
                          ELSE [st |-> [w EXCEPT !.count = @ + 1],
                                leftover |-> <<>>]
                 ELSE [st |-> seen, leftover |-> <<>>]
        ELSE [st |-> st, leftover |-> lastPart]

\* Install without the deferred closeFiles when Split returns an error
Install_noCloseOnError(st, ended) ==
    /\ buffers' = st.buffers
    /\ files' = st.files
    /\ creates' = st.creates
    /\ writes' = st.writes
    /\ emitted' = st.emitted
    /\ examined' = st.examined
    /\ statementCount' = st.count
    /\ err' = st.err
    /\ IF st.err # "nil"
       THEN pc' = "failed" /\ tables' = st.tables /\ closes' = closes
       ELSE IF ended
            THEN /\ pc' = "done"
                 /\ tables' = closeFiles(st.tables)
                 /\ closes' = closeCalls(st.tables, closes)
            ELSE pc' = "read" /\ tables' = st.tables /\ closes' = closes

\* the sink state becomes the next state; Split returns when it fails or ends
Install(st, ended) ==
    /\ buffers' = st.buffers
    /\ files' = st.files
    /\ creates' = st.creates
    /\ writes' = st.writes
    /\ emitted' = st.emitted
    /\ examined' = st.examined
    /\ statementCount' = st.count
    /\ err' = st.err
    /\ IF st.err # "nil"
       THEN /\ pc' = "failed"
            /\ tables' = closeFiles(st.tables)
            /\ closes' = closeCalls(st.tables, closes)
       ELSE IF ended
            THEN /\ pc' = "done"
                 /\ tables' = closeFiles(st.tables)
                 /\ closes' = closeCalls(st.tables, closes)
            ELSE /\ pc' = "read"
                 /\ tables' = st.tables
                 /\ closes' = closes

\* One iteration that reads n > 0 bytes with a nil error (main.go:171-226).
\* os.File.Read reports io.EOF only together with n = 0.
ReadChunk(n, fault) ==
    /\ pc = "read"
    /\ n >= 1 /\ n <= MaxChunk /\ pos + n <= Len(src)
    /\ LET readErr == "nil"
           chunk == leftover \o SubSeq(src, pos + 1, pos + n)
           statements == StringsSplit(chunk, ";")
           delims == Ascending({j \in pos + 1 .. pos + n : src[j] = ";"})
           done == ProcessStatements(Sink(fault), statements, 1, delims)
           last == IF done.err # "nil" THEN [st |-> done, leftover |-> <<>>]
                   ELSE LastPart(done, statements, readErr)
       IN  /\ pos' = pos + n
           /\ leftover' = last.leftover
           /\ Install(last.st, FALSE)
    /\ UNCHANGED <<src, env, clsIn, clsOut>>

\* ReadEOF without the final flush of main.go:229-233
ReadEOF_noFinalFlush(fault) ==
    /\ pc = "read"
    /\ pos = Len(src)
    /\ Install(Sink(fault), TRUE)
    /\ UNCHANGED <<src, pos, leftover, env, clsIn, clsOut>>

\* Read returns 0, io.EOF: break (main.go:172-174), the final flush
\* (main.go:229-233), return, and the deferred closeFiles (main.go:149-152).
ReadEOF(fault) ==
    /\ pc = "read"
    /\ pos = Len(src)
    /\ Install(flushBuffers(Sink(fault)), TRUE)
    /\ UNCHANGED <<src, pos, leftover, env, clsIn, clsOut>>

\* Read returns another error: return it (main.go:175-177), deferred close.
ReadError ==
    /\ pc = "read"
    /\ Install([Sink("none") EXCEPT !.err = "read"], FALSE)
    /\ UNCHANGED <<src, pos, leftover, env, clsIn, clsOut>>

-----------------------------------------------------------------------------
(* Inputs *)

\* the fragments source files are made of
Fragments ==
    { <<"a">>, <<" ">>, <<"\n">>, <<"--">>, <<"/*">>, <<";">>,
      <<"b", ";">>, <<"c", ";">>, <<"UPDATE", " ", "a", ";">> }

RECURSIVE Concatenations(_)
Concatenations(k) ==
    IF k = 0 THEN {<<>>}
    ELSE LET shorter == Concatenations(k - 1)
         IN  shorter \cup {f \o s : f \in Fragments, s \in shorter}

Sources == Concatenations(MaxFrags)

\* os.Open, os.Stat and os.MkdirAll (main.go:145-164) all succeed
AllSucceed == [open |-> TRUE, stat |-> TRUE, mkdir |-> TRUE]

\* On entry to the read loop (main.go:168): a new Splitter (main.go:25-32),
\* the input file open at its start, nothing read.
Init ==
    /\ src \in Sources
    /\ pos = 0
    /\ leftover = <<>>
    /\ pc = "read"
    /\ err = "nil"
    /\ tables = EmptyMap
    /\ buffers = EmptyMap
    /\ files = EmptyMap
    /\ creates = EmptyMap
    /\ writes = 0
    /\ closes = EmptyMap
    /\ env = AllSucceed
    /\ statementCount = 0
    /\ emitted = <<>>
    /\ examined = <<>>
    /\ clsIn = <<>>
    /\ clsOut = <<"idle">>

Next ==
    \/ \E n \in 1..MaxChunk, fault \in {"none", "create", "write"} :
           ReadChunk(n, fault)
    \/ \E fault \in {"none", "write"} : ReadEOF(fault)
    \/ ReadError

Spec == Init /\ [][Next]_vars

-----------------------------------------------------------------------------
(* The classifier on its own: extractTable applied to a statement text *)

Phrases ==
    { <<"CREATE", " ", "TABLE", " ">>, <<"IF", " ", "NOT", " ", "EXISTS", " ">>,
      <<"INSERT", " ", "INTO", " ">>, <<"UPDATE", " ">>,
      <<"DELETE", " ", "FROM", " ">>, <<"ALTER", " ", "TABLE", " ">>,
      <<"DROP", " ", "TABLE", " ">>, <<"IF", " ", "EXISTS", " ">>,
      <<"insert", " ", "into", " ">>, <<"UPDATE", " ", "a", " ">>,
      <<"a", " ">>, <<"B">>, <<Backtick>> }

RECURSIVE PhraseTexts(_)
PhraseTexts(k) ==
    IF k = 0 THEN {<<>>}
    ELSE LET shorter == PhraseTexts(k - 1)
         IN  shorter \cup {f \o s : f \in Phrases, s \in shorter}

InitClassify ==
    /\ clsIn \in PhraseTexts(MaxPhrases)
    /\ clsOut = <<"pending">>
    /\ src = <<>>
    /\ pos = 0
    /\ leftover = <<>>
    /\ pc = "idle"
    /\ err = "nil"
    /\ tables = EmptyMap
    /\ buffers = EmptyMap
    /\ files = EmptyMap
    /\ creates = EmptyMap
    /\ writes = 0
    /\ closes = EmptyMap
    /\ env = AllSucceed
    /\ statementCount = 0
    /\ emitted = <<>>
    /\ examined = <<>>

\* the call s.extractTable(statement) of main.go:203
Classify ==
    /\ clsOut = <<"pending">>
    /\ clsOut' = <<"table", extractTable(clsIn)>>
    /\ UNCHANGED <<src, pos, leftover, pc, err, tables, buffers, files, creates,
                   writes, closes, env, statementCount, emitted, examined,
                   clsIn>>

NextClassify == Classify

SpecClassify == InitClassify /\ [][NextClassify]_vars

-----------------------------------------------------------------------------
(* Properties of the read loop *)

\* the texts of a history of accepted statements, in order
Texts(history) == [i \in 1..Len(history) |-> history[i].text]

\* the accepted statements routed to table t, in order, as written lines
LinesFor(t) ==
    LET mine(e) == e.table = t
        own == SelectSeq(emitted, mine)
    IN  [i \in 1..Len(own) |-> own[i].text \o <<"\n">>]

Pending(t) == IF t \in DOMAIN buffers THEN buffers[t] ELSE <<>>

\* a new Splitter (main.go:25-32) with empty histories
NewSink ==
    [tables |-> EmptyMap, buffers |-> EmptyMap, files |-> EmptyMap,
     creates |-> EmptyMap, writes |-> 0, emitted |-> <<>>, examined |-> <<>>,
     count |-> 0, err |-> "nil", fault |-> "none"]

\* what the loop emits when Read delivers the whole content as one chunk
SingleChunkTexts(content) ==
    LET statements == StringsSplit(content, ";")
        delims == Ascending({j \in 1..Len(content) : content[j] = ";"})
        done == ProcessStatements(NewSink, statements, 1, delims)
    IN  Texts(LastPart(done, statements, "nil").st.emitted)

\* the source pieces: the whole content split on ';', each piece trimmed
NaivePieces(content) ==
    LET pieces == StringsSplit(content, ";")
    IN  [i \in 1..Len(pieces) |-> TrimSpace(pieces[i])]

Count(seq, x) == Cardinality({i \in 1..Len(seq) : seq[i] = x})

SameBag(s1, s2) ==
    /\ Len(s1) = Len(s2)
    /\ \A i \in 1..Len(s1) : Count(s1, s1[i]) = Count(s2, s1[i])

\* every string written to any output file, without its final newline and
\* without the ';' the loop appends
RECURSIVE AllLines(_)
AllLines(names) ==
    IF names = {} THEN <<>>
    ELSE LET t == CHOOSE x \in names : TRUE
         IN  files[t] \o AllLines(names \ {t})

Unterminated(line) ==
    LET body == IF line # <<>> /\ line[Len(line)] = "\n"
                THEN SubSeq(line, 1, Len(line) - 1) ELSE line
    IN  IF body # <<>> /\ body[Len(body)] = ";"
        THEN SubSeq(body, 1, Len(body) - 1) ELSE body

StatementsOnDisk ==
    LET lines == AllLines(DOMAIN files)
    IN  [i \in 1..Len(lines) |-> Unterminated(lines[i])]

\* C1. Chunk-boundary invariance: however the reader cuts the content into
\* chunks, a run that ends without error has emitted the same statements, in
\* the same order, as a run that receives the content as one single chunk.
C1_ChunkBoundaryInvariance ==
    pc = "done" => Texts(emitted) = SingleChunkTexts(src)

\* C2. No loss, no duplication: after a successful run the statements in the
\* output files are, as a multiset, the valid trimmed pieces of the whole
\* source split on ';'.
C2_NoLossNoDuplication ==
    pc = "done" =>
        SameBag(StatementsOnDisk, SelectSeq(NaivePieces(src), hasValid))

\* the text after the last ';' of the source, trimmed
FinalText == LET pieces == NaivePieces(src) IN pieces[Len(pieces)]

\* C3. Final unterminated statement: when the run finishes and the text after
\* the last ';' of the source is valid, that text is the last statement
\* emitted and the last line of its table's file.
C3_FinalStatementEmitted ==
    (pc = "done" /\ hasValid(FinalText)) =>
        /\ emitted # <<>>
        /\ LET e == emitted[Len(emitted)]
           IN  /\ e.text = FinalText
               /\ e.table \in DOMAIN files
               /\ files[e.table] # <<>>
               /\ files[e.table][Len(files[e.table])] = FinalText \o <<"\n">>

\* C4. Ordering: statements are emitted in the order of their terminating
\* ';' in the source, and each output file followed by its pending buffer is
\* exactly the statements routed to that table, in that order, each once.
C4_Ordering ==
    /\ \A i, j \in 1..Len(emitted) :
           i < j => emitted[i].delim < emitted[j].delim
    /\ \A t \in DOMAIN files :
           /\ Len(files[t]) <= Len(LinesFor(t))
           /\ files[t] = SubSeq(LinesFor(t), 1, Len(files[t]))
           /\ err = "nil" =>
                  files[t] \o [i \in 1..Len(Pending(t)) |->
                                   Pending(t)[i] \o <<"\n">>] = LinesFor(t)

\* three statements in one file, written by a threshold flush and the final one
C4_Witness ==
    /\ pc = "done"
    /\ \E t \in DOMAIN files :
           /\ Len(files[t]) = 3
           /\ files[t][1] # files[t][2]
           /\ files[t][2] # files[t][3]
           /\ FlushThreshold < 3

\* the validity rule in the words of the specification
ValidPiece(piece) ==
    /\ piece # <<>>
    /\ \E line \in {StringsSplit(piece, "\n")[i] :
                        i \in 1..Len(StringsSplit(piece, "\n"))} :
           LET trimmed == TrimSpace(line)
           IN  trimmed # <<>> /\ trimmed[1] \notin {"--", "/*"}

\* C5. Validity filter: of the pieces the loop examines, exactly the valid
\* ones are emitted (with the ';' appended) and counted; no line of any
\* output file is an invalid piece.
C5_ValidityFilter ==
    /\ err = "nil" =>
           /\ Len(Texts(emitted)) = Len(SelectSeq(examined, ValidPiece))
           /\ \A i \in 1..Len(emitted) :
                  emitted[i].text =
                      SelectSeq(examined, ValidPiece)[i] \o <<";">>
           /\ statementCount = Len(SelectSeq(examined, ValidPiece))
    /\ \A i \in 1..Len(StatementsOnDisk) : ValidPiece(StatementsOnDisk[i])

\* a comment-only piece was dropped and a valid piece was written
C5_Witness ==
    /\ pc = "done"
    /\ \E i \in 1..Len(examined) :
           examined[i] # <<>> /\ ~ValidPiece(examined[i])
    /\ \E i \in 1..Len(examined) : ValidPiece(examined[i])
    /\ statementCount = 1 /\ writes = 1

\* the source text that the ';' at position d terminates
SourcePiece(d) ==
    LET before == {j \in 1..(d - 1) : src[j] = ";"}
        from == IF before = {} THEN 1 ELSE Max(before) + 1
    IN  SubSeq(src, from, d - 1)

\* C6. Emitted text: every statement emitted for a delimiter-terminated piece
\* is the source text between two consecutive delimiters, trimmed, followed
\* by one ';'.
C6_EmittedTextIsSourcePiece ==
    \A i \in 1..Len(emitted) :
        emitted[i].delim > 0 =>
            emitted[i].text = TrimSpace(SourcePiece(emitted[i].delim)) \o <<";">>


-----------------------------------------------------------------------------
(* Properties of the classifier *)

\* the patterns that match somewhere in the uppercased text
Matching(text) ==
    {k \in 1..Len(patterns) :
         FindStringSubmatch(ToUpper(TrimSpace(text)), patterns[k]) # <<>>}

\* C7. Classifier priority: the result of extractTable is the lowercased
\* identifier captured by the first pattern, in the order CREATE TABLE,
\* INSERT INTO, UPDATE, DELETE FROM, ALTER TABLE, DROP TABLE, that matches
\* anywhere in the uppercased text, and the empty name when none matches.
C7_ClassifierPriority ==
    clsOut # <<"pending">> =>
        /\ clsOut[1] = "table"
        /\ IF Matching(clsIn) = {} THEN clsOut[2] = <<>>
           ELSE LET k == Min(Matching(clsIn))
                    m == FindStringSubmatch(ToUpper(TrimSpace(clsIn)),
                                            patterns[k])
                IN  /\ clsOut[2] = ToLower(m)
                    /\ \A i \in 1..Len(clsOut[2]) : clsOut[2][i] # Backtick

\* UPDATE comes first in the text, INSERT INTO comes first in the order
C7_Witness ==
    /\ clsIn = <<"UPDATE", " ", "a", " ", "INSERT", " ", "INTO", " ", "B">>
    /\ clsOut = <<"table", <<"b">>>>

-----------------------------------------------------------------------------
(* Properties of the sink *)

\* the table names statements have been routed to
Routed == {emitted[i].table : i \in 1..Len(emitted)}

C9_FlushIdempotence ==
    LET once == flushBuffers(Sink("none"))
        twice == flushBuffers(once)
    IN  /\ twice.files = once.files
        /\ twice.writes = once.writes
        /\ twice.err = once.err
        /\ (\A t \in DOMAIN buffers : buffers[t] = <<>>) =>
               once.files = files /\ once.writes = writes

\* statements are pending, so the first of the two flushes writes
C9_Witness ==
    /\ pc = "read"
    /\ \E t \in DOMAIN buffers : buffers[t] # <<>>
    /\ flushBuffers(Sink("none")).writes > writes
    /\ writes > 0

\* C10. Final flush: when Split returns without error every buffer is empty
\* and every file holds exactly the statements accepted for its table, each
\* once and each followed by a newline.
C10_FinalFlush ==
    pc = "done" =>
        /\ \A t \in DOMAIN buffers : buffers[t] = <<>>
        /\ \A t \in Routed : t \in DOMAIN files /\ files[t] = LinesFor(t)
        /\ writes = Len(emitted)

\* a run whose only write is made by the final flush
C10_Witness ==
    /\ pc = "done"
    /\ Len(emitted) = 1
    /\ writes = 1
    /\ FlushThreshold >= 1

-----------------------------------------------------------------------------
(* Properties of the exit paths of the read loop *)

\* C11. Resource cleanup: when Split has returned from the loop, with or
\* without an error, every output file created during the run is closed and
\* has been closed by exactly one Close call; while the loop runs, no file
\* has been closed, so every write precedes the close.
C11_ResourceCleanup ==
    /\ DOMAIN closes \subseteq DOMAIN creates
    /\ pc \in {"done", "failed"} =>
           \A t \in DOMAIN creates :
               /\ t \in DOMAIN tables /\ tables[t] = "closed"
               /\ t \in DOMAIN closes /\ closes[t] = 1
    /\ pc = "read" =>
           /\ closes = EmptyMap
           /\ \A t \in DOMAIN tables : tables[t] = "open"

\* a flush fails after two files were created and written
C11_Witness ==
    /\ pc = "failed"
    /\ err = "write"
    /\ writes > 0
    /\ Cardinality(DOMAIN closes) = 2

\* the valid pieces among the examined ones
ValidExamined(history) == SelectSeq(history, ValidPiece)

IsPrefix(s, whole) == Len(s) <= Len(whole) /\ s = SubSeq(whole, 1, Len(s))

\* the state Split returns in when it fails: nothing is examined, appended,
\* counted or written after the call that failed
AbortedAt(kind, exam, emit, count, fls, bufs, at, content) ==
    /\ kind \in {"read", "create", "write"}
    /\ kind = "read" =>
           count = Len(emit) /\ Len(emit) = Len(ValidExamined(exam))
    /\ kind = "create" =>
           /\ exam # <<>>
           /\ ValidPiece(exam[Len(exam)])
           /\ Len(emit) = Len(ValidExamined(exam)) - 1
           /\ count = Len(emit)
           /\ LET name == extractTable(exam[Len(exam)])
              IN  (IF name = <<>> THEN misc ELSE name) \notin DOMAIN fls
    /\ kind = "write" =>
           /\ Len(emit) = Len(ValidExamined(exam))
           /\ \E t \in DOMAIN bufs : bufs[t] # <<>>
           /\ \/ count = Len(emit) /\ at = Len(content)
              \/ /\ count = Len(emit) - 1
                 /\ exam # <<>>
                 /\ emit[Len(emit)].text = exam[Len(exam)] \o <<";">>

Classification(text) ==
    LET name == extractTable(Unterminated(text))
    IN  IF name = <<>> THEN misc ELSE name

\* the number of statements in the files and the buffers of the given tables
RECURSIVE Held(_)
Held(names) ==
    IF names = {} THEN 0
    ELSE LET t == CHOOSE x \in names : TRUE
         IN  Len(files[t]) + Len(Pending(t)) + Held(names \ {t})

\* C15. Routing: every valid piece examined is accepted, matched or not, and
\* appended under exactly one table, the one extractTable returns for it or
\* misc when no pattern matches; every line in an output file or a pending
\* buffer is classified to the table of that file.
C15_Routing ==
    /\ \A i \in 1..Len(emitted) :
           emitted[i].table = Classification(emitted[i].text)
    /\ \A t \in DOMAIN files :
           /\ \A i \in 1..Len(files[t]) : Classification(files[t][i]) = t
           /\ \A i \in 1..Len(Pending(t)) : Classification(Pending(t)[i]) = t
    /\ DOMAIN buffers \subseteq DOMAIN files
    /\ err = "nil" =>
           /\ Texts(emitted) = [i \in 1..Len(ValidExamined(examined)) |->
                                    ValidExamined(examined)[i] \o <<";">>]
           /\ Held(DOMAIN files) = Len(emitted)

\* a finished run that wrote an unmatched statement to misc and a matched one
\* to the file of its table
C15_Witness ==
    /\ pc = "done"
    /\ misc \in DOMAIN files /\ files[misc] # <<>>
    /\ \E t \in DOMAIN files \ {misc} :
           /\ files[t] # <<>>
           /\ extractTable(Unterminated(files[t][1])) = t

\* the position of the last ';' among the lexemes read so far, 0 if none
LastDelimiter ==
    Max({0} \cup {i \in 1..pos : src[i] = ";"})

\* C16. Carry invariant: between two reads the carry leftover holds no ';'
\* and is the source text that follows the last ';' read so far.
C16_CarryInvariant ==
    pc = "read" =>
        /\ \A i \in 1..Len(leftover) : leftover[i] # ";"
        /\ leftover = SubSeq(src, LastDelimiter + 1, pos)

\* the number of statements pending in the buffers of a sink
PendingTotal(st) == SumLen(st.buffers, DOMAIN st.buffers)

\* C17. Bounded buffering: when writeStatement has returned without error the
\* buffers hold at most FlushThreshold statements in total; the call that
\* takes the total over the threshold writes every pending statement of
\* every table and leaves all buffers empty, and a call that does not writes
\* nothing.
C17_BoundedBuffering ==
    /\ err = "nil" => SumLen(buffers, DOMAIN buffers) <= FlushThreshold
    /\ pc = "read" =>
           \A name \in {<<>>, <<"a">>, <<"z">>} :
               LET before == Sink("none")
                   after  == writeStatement(before, name, <<"c", ";">>, 0)
                   held   == PendingTotal(before) + 1
               IN  /\ after.err = "nil"
                   /\ PendingTotal(after) <= FlushThreshold
                   /\ IF held > FlushThreshold
                      THEN /\ PendingTotal(after) = 0
                           /\ after.writes = before.writes + held
                      ELSE /\ PendingTotal(after) = held
                           /\ after.writes = before.writes

\* the loop goes on after a flush that the threshold triggered and that wrote
\* the buffers of two tables
C17_Witness ==
    /\ pc = "read"
    /\ err = "nil"
    /\ writes = FlushThreshold + 1
    /\ Cardinality({t \in DOMAIN files : files[t] # <<>>}) = 2
    /\ SumLen(buffers, DOMAIN buffers) = 0

\* C18 as stated. Handle/buffer consistency in every reachable state: every
\* table name with a buffer entry has an open handle in the handle map.
C18_OpenHandleInEveryState ==
    \A t \in DOMAIN buffers : t \in DOMAIN tables /\ tables[t] = "open"

\* C18, amended. Handle/buffer consistency while Split runs: every table
\* name with a buffer entry has a handle in the handle map, and that handle
\* is open in every state in which the loop can still append or flush; a
\* failed file creation leaves no buffer entry for its table; the handles
\* are closed only in the states Split has returned in.
C18_HandleBufferConsistency ==
    /\ DOMAIN buffers \subseteq DOMAIN tables
    /\ pc = "read" => \A t \in DOMAIN buffers : tables[t] = "open"
    /\ pc \in {"done", "failed"} =>
           \A t \in DOMAIN tables : tables[t] = "closed"
    /\ err = "create" =>
           Classification(examined[Len(examined)]) \notin DOMAIN buffers

\* between two reads, statements of two tables have been appended and one is
\* still pending
C18_Witness ==
    /\ pc = "read"
    /\ Cardinality(DOMAIN buffers) = 2
    /\ \E t \in DOMAIN buffers : buffers[t] # <<>>

-----------------------------------------------------------------------------
(* A call of Split from its first line.  The var block of main.go:130-142 is
   evaluated before anything else: inputInfo is declared at line 134 and is
   still the nil interface when line 137 calls inputInfo.Size(), so the call
   panics there.  os.Open (145), the defer (149), os.Stat (155), os.MkdirAll
   (161) and the loop come after it; main has no recover, so they are never
   reached and the call has this one step. *)

Outcomes == [open : BOOLEAN, stat : BOOLEAN, mkdir : BOOLEAN]

InitRun ==
    /\ src \in Sources
    /\ env \in Outcomes
    /\ pos = 0
    /\ leftover = <<>>
    /\ pc = "declare"
    /\ err = "nil"
    /\ tables = EmptyMap
    /\ buffers = EmptyMap
    /\ files = EmptyMap
    /\ creates = EmptyMap
    /\ writes = 0
    /\ closes = EmptyMap
    /\ statementCount = 0
    /\ emitted = <<>>
    /\ examined = <<>>
    /\ clsIn = <<>>
    /\ clsOut = <<"idle">>

\* main.go:130-142: totalBytes = inputInfo.Size() on the nil inputInfo
Declarations ==
    /\ pc = "declare"
    /\ pc' = "panic"
    /\ UNCHANGED <<src, pos, leftover, err, tables, buffers, files, creates,
                   writes, closes, env, statementCount, emitted, examined,
                   clsIn, clsOut>>

NextRun == Declarations

SpecRun == InitRun /\ [][NextRun]_vars

\* C13. Setup errors: when the source cannot be opened or stat'ed, or the
\* output directory cannot be created, the call ends by returning an error,
\* with no output file created and no statement emitted.
C13_SetupErrors ==
    (pc # "declare" /\ env # AllSucceed) =>
        /\ pc = "failed"
        /\ err # "nil"
        /\ creates = EmptyMap
        /\ emitted = <<>>

\* C14. Successful completion: when the input opens and every later call
\* succeeds, the call never ends in a panic.
C14_SuccessfulCompletion ==
    env = AllSucceed => pc # "panic"

=============================================================================
